---- MODULE Spec2Model ----
(***************************************************************************)
(* Fridge-to-Feast (AI-meal-app): the feasibility / shopping-list logic of *)
(* components/RecipeCard.tsx and the batch generation pipeline of App.tsx. *)
(*                                                                         *)
(* Strings are TLA+ strings handled character by character with SubSeq and *)
(* \o.  TLA+ string literals are ASCII, so the four non-ASCII letters of   *)
(* the staple list are written with digits that occur nowhere else:        *)
(*     o-umlaut = "0"   u-acute = "1"   s-caron = "2"   c-acute = "3"      *)
(*                                                                         *)
(* Quantities are integers counting a fixed smallest step (hundredths or   *)
(* coarser): floor(a / b) does not depend on the step, and rounding such a *)
(* value to two decimals for display leaves it unchanged.                  *)
(***************************************************************************)
EXTENDS Integers, Sequences, FiniteSets, TLC

VARIABLES
    recipe,          \* RecipeCard prop: the recipe ([ingredients |-> <<...>>])
    available,       \* RecipeCard prop availableIngredients: the pantry
    servingCount,    \* RecipeCard prop, held in RecipeDisplay.servingCounts[index]
    mounted,         \* whether the RecipeCard has rendered yet
    maxServings,     \* RecipeCard: useMemo(calculateMaxServings(recipe, availableIngredients))
    rendered         \* RecipeCard: what the ingredients tab shows, one entry per ingredient

cardVars == <<recipe, available, servingCount, mounted, maxServings, rendered>>

VARIABLES
    appState,              \* App: 'initial' | 'loading' | 'confirming_ingredients' | 'results' | 'error'
    recipes,               \* App: Recipe[] | null
    availableIngredients,  \* App: AvailableIngredient[] | null
    error,                 \* App: string | null
    isGeneratingMore,      \* App: boolean
    analysis,              \* the handleImageAnalysis call in progress, if any
    tasks                  \* the handleRecipeGeneration / handleGenerateMoreRecipes calls in progress

appVars == <<appState, recipes, availableIngredients, error, isGeneratingMore, analysis, tasks>>

\* App.tsx in its variant with AI translation of the UI
VARIABLES
    language,               \* active language code
    allTranslations,        \* language codes whose strings are cached
    isTranslating,          \* the translating overlay is shown
    translation             \* language code translateUI is awaited for, "none" otherwise

langVars == <<language, allTranslations, isTranslating, translation>>

\* ImageUploader
VARIABLES
    files,                  \* names of the selected files, in order (previews run parallel)
    reads                   \* processFiles calls whose FileReader reads are under way

uploaderVars == <<files, reads>>

\* IngredientEditor
VARIABLES
    editorIngredients       \* the ingredients state of the editor

editorVars == <<editorIngredients>>

otherVars == <<langVars, uploaderVars, editorVars>>

vars == <<cardVars, appVars, otherVars>>

-----------------------------------------------------------------------------
(* Bounds of the model *)

MaxIngredients == 2        \* ingredients per recipe
MaxPantry == 2             \* entries in the pantry
MaxServingCount == 3       \* serving counts explored, 1..MaxServingCount
MaxResults == 2            \* recipes in one answer of generateMultipleRecipes
MaxDisplayed == 1          \* "generate more" is modelled while at most this many recipes show
MaxTasks == 2              \* generation calls in progress at the same time

(* Input domains of the model *)

RecipeNames == { "Eggs", "eggss", "Sea Salt" }
PantryNames == { "egg", "eggss" }
RecipeUnits == { "Pieces", "cups" }
PantryUnits == { "unit", "cup" }
RecipeQuantities == 0..2   \* per serving; the code guards against 0
PantryQuantities == 1..2   \* IngredientEditor.handleSubmit keeps quantity > 0 only

\* Names of the pipeline's candidate recipes and pantries
PipelineNames == { "Eggs", "milk", "Sea Salt", "Sugar", "egg", "Milk" }

Strings == RecipeNames \cup PantryNames \cup RecipeUnits \cup PantryUnits \cup PipelineNames

Max(a, b) == IF a >= b THEN a ELSE b
Min(a, b) == IF a <= b THEN a ELSE b

-----------------------------------------------------------------------------
(* String.prototype.toLowerCase, String.prototype.includes *)

UpperCaseLetters == "ABCDEFGHIJKLMNOPQRSTUVWXYZ"
LowerCaseLetters == "abcdefghijklmnopqrstuvwxyz"

charAt(str, i) == SubSeq(str, i, i)

toLowerCaseChar(c) ==
    IF \E k \in 1..Len(UpperCaseLetters) : charAt(UpperCaseLetters, k) = c
    THEN charAt(LowerCaseLetters,
                CHOOSE k \in 1..Len(UpperCaseLetters) : charAt(UpperCaseLetters, k) = c)
    ELSE c

RECURSIVE toLowerCase(_)
toLowerCase(str) ==
    IF Len(str) = 0 THEN ""
    ELSE toLowerCaseChar(charAt(str, 1)) \o toLowerCase(SubSeq(str, 2, Len(str)))

includes(str, search) ==
    \E i \in 1..(Len(str) - Len(search) + 1) :
        SubSeq(str, i, i + Len(search) - 1) = search

-----------------------------------------------------------------------------
(* RecipeCard.tsx helper functions *)

pantryStaples ==
    { "salt", "pepper", "oil", "water", "sugar",
      "socker", "peppar", "olja", "vatten",
      "salz", "pfeffer", "0l", "wasser", "zucker",
      "sel", "poivre", "huile", "eau", "sucre",
      "sal", "pimienta", "aceite", "agua", "az1car",
      "sale", "pepe", "olio", "acqua", "zucchero",
      "sol", "papar", "ulje", "voda", "2e3er" }

\* Mutant: every trailing "s" is removed (the pattern /s+$/).
RECURSIVE stripAllTrailingS(_)
stripAllTrailingS(str) ==
    IF Len(str) > 0 /\ charAt(str, Len(str)) = "s"
    THEN stripAllTrailingS(SubSeq(str, 1, Len(str) - 1))
    ELSE str
normalizeStringAllTrailingS(str) == stripAllTrailingS(toLowerCase(str))

\* str.toLowerCase().replace(/s$/, '')
normalizeString(str) ==
    LET lower == toLowerCase(str)
    IN  IF Len(lower) > 0 /\ charAt(lower, Len(lower)) = "s"
        THEN SubSeq(lower, 1, Len(lower) - 1)
        ELSE lower

\* Mutant: the normalized name must be a staple word, not merely contain one.
isPantryStapleExact(name) == normalizeString(name) \in pantryStaples

isPantryStaple(name) ==
    LET normalized == normalizeString(name)
    IN  \E staple \in pantryStaples : includes(normalized, staple)

discreteUnits == { "unit", "st", "styck", "piece", "item" }

\* normalizeString and isPantryStaple tabulated over the strings of the model,
\* so that each is computed once per string.
norm == [ str \in Strings |-> normalizeString(str) ]
isStaple == [ name \in Strings |-> isPantryStaple(name) ]

\* Mutant: the last pantry entry with the normalized name is taken.
findAvailableLast(avail, normalizedRecipeIngName) ==
    IF \E k \in 1..Len(avail) : norm[avail[k].name] = normalizedRecipeIngName
    THEN CHOOSE k \in 1..Len(avail) :
            /\ norm[avail[k].name] = normalizedRecipeIngName
            /\ \A j \in (k + 1)..Len(avail) : norm[avail[j].name] # normalizedRecipeIngName
    ELSE 0

\* Array.prototype.find on the pantry by normalized name: the index of the
\* first matching entry, 0 for undefined.
findAvailable(avail, normalizedRecipeIngName) ==
    IF \E k \in 1..Len(avail) : norm[avail[k].name] = normalizedRecipeIngName
    THEN CHOOSE k \in 1..Len(avail) :
            /\ norm[avail[k].name] = normalizedRecipeIngName
            /\ \A j \in 1..(k - 1) : norm[avail[j].name] # normalizedRecipeIngName
    ELSE 0

\* Mutant: the discrete-unit equivalence is dropped.
unitsMatchIdenticalOnly(availableUnit, recipeUnit) ==
    norm[availableUnit] = norm[recipeUnit]

\* (normAvailableUnit === normRecipeUnit) ||
\* (discreteUnits.has(normAvailableUnit) && discreteUnits.has(normRecipeUnit))
unitsMatch(availableUnit, recipeUnit) ==
    LET normAvailableUnit == norm[availableUnit]
        normRecipeUnit == norm[recipeUnit]
    IN  \/ normAvailableUnit = normRecipeUnit
        \/ (normAvailableUnit \in discreteUnits /\ normRecipeUnit \in discreteUnits)

\* JavaScript's Infinity, the initial maxPossible: a value above every quotient
\* floor(availableIng.quantity / recipeIng.quantity) the model can produce.
Infinity == 1 + CHOOSE q \in PantryQuantities : \A p \in PantryQuantities : p <= q

\* Mutant: the quotient is rounded up.
possibleServingsCeil(availableQuantity, recipeQuantity) ==
    (availableQuantity + recipeQuantity - 1) \div recipeQuantity

\* Mutant: the operands of the division are swapped.
possibleServingsSwapped(availableQuantity, recipeQuantity) ==
    recipeQuantity \div availableQuantity

\* Math.floor(availableIng.quantity / recipeIng.quantity)
possibleServings(availableQuantity, recipeQuantity) ==
    availableQuantity \div recipeQuantity

\* Mutant: no fallback for a recipe of staples only.
servingsResultNoFallback(maxPossible) == Max(0, maxPossible)

\* Mutant: the result is at least one serving (Math.max(1, maxPossible)).
servingsResultAtLeastOne(maxPossible) ==
    IF maxPossible = Infinity THEN 20 ELSE Max(1, maxPossible)

\* return maxPossible === Infinity ? 20 : Math.max(0, maxPossible)
servingsResult(maxPossible) ==
    IF maxPossible = Infinity THEN 20 ELSE Max(0, maxPossible)

\* The for-loop of calculateMaxServings from ingredient i on, maxPossible so far.
RECURSIVE maxServingsFrom(_, _, _, _)
maxServingsFrom(ingredients, avail, i, maxPossible) ==
    IF i > Len(ingredients)
    THEN servingsResult(maxPossible)
    ELSE
      LET recipeIng == ingredients[i] IN
      IF isStaple[recipeIng.name]
      THEN maxServingsFrom(ingredients, avail, i + 1, maxPossible)
      ELSE
        LET availableIng == findAvailable(avail, norm[recipeIng.name]) IN
        IF availableIng # 0 /\ recipeIng.quantity > 0
        THEN IF unitsMatch(avail[availableIng].unit, recipeIng.unit)
             THEN LET possible == possibleServings(avail[availableIng].quantity,
                                                   recipeIng.quantity)
                  IN  maxServingsFrom(ingredients, avail, i + 1,
                                      IF possible < maxPossible THEN possible ELSE maxPossible)
             ELSE 0
        ELSE IF availableIng = 0
             THEN 0
             ELSE maxServingsFrom(ingredients, avail, i + 1, maxPossible)

\* Mutant: an ingredient missing from the pantry is skipped (continue) instead
\* of ending the loop with 0.
calculateMaxServingsSkippingMissing(rec, avail) ==
    maxServingsFrom(
        SelectSeq(rec.ingredients,
                  LAMBDA ing : isStaple[ing.name] \/ findAvailable(avail, norm[ing.name]) # 0),
        avail, 1, Infinity)

calculateMaxServings(rec, avail) == maxServingsFrom(rec.ingredients, avail, 1, Infinity)

\* The body of recipe.ingredients.map in the ingredients tab: one <li>.
renderIngredient(ing, avail, count, maxServ) ==
    LET neededForServings == ing.quantity * count
        availableIng == findAvailable(avail, norm[ing.name])
        shortfall ==
            IF availableIng # 0
               /\ norm[avail[availableIng].unit] = norm[ing.unit]
            THEN Max(0, neededForServings - avail[availableIng].quantity)
            ELSE IF availableIng = 0 THEN neededForServings ELSE 0
        isShort == count > maxServ /\ shortfall > 0 /\ ~isStaple[ing.name]
    IN  [ name |-> ing.name, unit |-> ing.unit, needed |-> neededForServings,
          isShort |-> isShort, amountToBuy |-> shortfall ]

renderIngredients(rec, avail, count, maxServ) ==
    [ i \in 1..Len(rec.ingredients) |->
        renderIngredient(rec.ingredients[i], avail, count, maxServ) ]

-----------------------------------------------------------------------------
(* Inputs of the RecipeCard *)

RecipeIngredients ==
    [ name : RecipeNames, quantity : RecipeQuantities, unit : RecipeUnits ]
PantryEntries ==
    [ name : PantryNames, quantity : PantryQuantities, unit : PantryUnits ]

SeqsUpTo(S, n) == UNION { [1..k -> S] : k \in 0..n }

-----------------------------------------------------------------------------
(* App.tsx: state *)

\* null for the list-valued states; a list is wrapped so that it compares with null.
Null == [ isNull |-> TRUE, items |-> << >> ]
Some(list) == [ isNull |-> FALSE, items |-> list ]

MAX_INGREDIENTS == 50

\* One call of handleRecipeGeneration ("generate") or handleGenerateMoreRecipes
\* ("more"): its position and its locals.
\*   pc "text"  awaiting generateMultipleRecipes
\*      "image" awaiting generateMealImage for recipesToUpdate[i]
\*      "delay" awaiting the 1500 ms timeout before recipe i + 1
\*      "timer" the 500 ms timeout that sets appState 'results' is pending
NoTask ==
    [ handler |-> "none", pc |-> "idle", pantry |-> << >>, prior |-> << >>,
      recipeResults |-> << >>, filtered |-> << >>, recipesToUpdate |-> << >>, i |-> 0 ]

TaskSlots == 1..MaxTasks

\* useState's initial values of the translating variant: English, cached.
LangIdle ==
    /\ language = "en"
    /\ allTranslations = { "en" }
    /\ isTranslating = FALSE
    /\ translation = "none"

\* The components other than the card and the pipeline, as constructed.
OthersIdle ==
    /\ LangIdle
    /\ files = << >>
    /\ reads = << >>
    /\ editorIngredients = << >>

\* The state of useState's initial values, no call in progress.
AppIdle ==
    /\ appState = "initial"
    /\ recipes = Null
    /\ availableIngredients = Null
    /\ error = "null"
    /\ isGeneratingMore = FALSE
    /\ analysis = "idle"
    /\ tasks = [ t \in TaskSlots |-> NoTask ]

-----------------------------------------------------------------------------
(* RecipeCard inside RecipeDisplay *)

\* RecipeDisplay is handed a recipe and the pantry; servingCounts[index] starts
\* at 1.  Nothing is computed before the card's first render.
CardInit ==
    /\ recipe \in [ ingredients : SeqsUpTo(RecipeIngredients, MaxIngredients) ]
    /\ available \in SeqsUpTo(PantryEntries, MaxPantry)
    /\ servingCount = 1
    /\ mounted = FALSE
    /\ maxServings = 0
    /\ rendered = << >>
    /\ AppIdle
    /\ OthersIdle

\* First render of the RecipeCard: useMemo runs calculateMaxServings and the
\* ingredients tab (the initial activeTab) maps over recipe.ingredients.
CardRender ==
    /\ ~mounted
    /\ mounted' = TRUE
    /\ maxServings' = calculateMaxServings(recipe, available)
    /\ rendered' = renderIngredients(recipe, available, servingCount, maxServings')
    /\ UNCHANGED <<recipe, available, servingCount, appVars, otherVars>>

\* RecipeDisplay.handleServingChange followed by the re-render of the card
\* (maxServings is memoized on recipe and availableIngredients).
handleServingChange(newCount) ==
    /\ mounted
    /\ servingCount' = Max(1, newCount)
    /\ rendered' = renderIngredients(recipe, available, servingCount', maxServings)
    /\ UNCHANGED <<recipe, available, mounted, maxServings, appVars, otherVars>>

\* The minus button: onServingChange(Math.max(1, servingCount - 1))
ServingMinus == handleServingChange(Max(1, servingCount - 1))

\* The plus button: onServingChange(Math.min(99, servingCount + 1))
ServingPlus ==
    /\ servingCount < MaxServingCount
    /\ handleServingChange(Min(99, servingCount + 1))

\* The range input, min 1 max sliderMax: onServingChange(parseInt(e.target.value))
sliderMax == 20
ServingSlider ==
    \E value \in 1..Min(sliderMax, MaxServingCount) :
        /\ value # servingCount
        /\ handleServingChange(value)

CardNext == CardRender \/ ServingMinus \/ ServingPlus \/ ServingSlider

SpecCard == CardInit /\ [][CardNext]_vars

-----------------------------------------------------------------------------
(* App.tsx: the services' answers and the user's inputs *)

Ingredient(n, q, u) == [ name |-> n, quantity |-> q, unit |-> u ]

\* Recipes generateMultipleRecipes may answer with; imageUrl "" is an absent imageUrl.
CandidateRecipes ==
    { [ recipeName |-> "Omelette", imageUrl |-> "",
        ingredients |-> << Ingredient("Eggs", 1, "Pieces") >> ],
      [ recipeName |-> "Pancakes", imageUrl |-> "",
        ingredients |-> << Ingredient("Eggs", 1, "Pieces"), Ingredient("milk", 2, "cups") >> ],
      [ recipeName |-> "Salted eggs", imageUrl |-> "",
        ingredients |-> << Ingredient("Sea Salt", 1, "cups"), Ingredient("Eggs", 2, "Pieces") >> ],
      [ recipeName |-> "Meringue", imageUrl |-> "",
        ingredients |-> << Ingredient("Eggs", 2, "Pieces"), Ingredient("Sugar", 1, "cups") >> ] }

RecipeResults == SeqsUpTo(CandidateRecipes, MaxResults)

\* Pantries the user may confirm: IngredientEditor.handleSubmit passes on the
\* entries with a non-blank name and quantity > 0, and the confirm button
\* needs at least one such entry.
ConfirmedPantries ==
    { << Ingredient("egg", 2, "unit") >>,
      << Ingredient("Milk", 1, "cup") >>,
      << Ingredient("egg", 1, "cup"), Ingredient("Milk", 3, "cup") >> }

\* The data URI generateMealImage resolves with for a recipe.
imageFor(recipeName) == "data:image/jpeg;base64," \o recipeName

-----------------------------------------------------------------------------
(* App.tsx: handlers *)

\* const pantryStaples = ['salt', 'pepper', 'oil', 'water'] of both handlers
appPantryStaples == { "salt", "pepper", "oil", "water" }

\* pantryStaples.some(staple => normalizedRecipeIngName.includes(staple)), tabulated
isFilterStaple ==
    [ name \in Strings |-> \E staple \in appPantryStaples : includes(norm[name], staple) ]

\* Mutant: the recipe is kept when some ingredient is available (some for every).
someIngredientAvailable(rec, pantry) ==
    \E i \in 1..Len(rec.ingredients) :
        \/ isFilterStaple[rec.ingredients[i].name]
        \/ \E k \in 1..Len(pantry) : norm[pantry[k].name] = norm[rec.ingredients[i].name]

\* recipe.ingredients.every(recipeIng => ...), the callback of the filter
everyIngredientAvailable(rec, pantry) ==
    \A i \in 1..Len(rec.ingredients) :
        LET normalizedRecipeIngName == norm[rec.ingredients[i].name]
        IN  \/ isFilterStaple[rec.ingredients[i].name]
            \/ \E k \in 1..Len(pantry) : norm[pantry[k].name] = normalizedRecipeIngName

\* recipeResults.filter(recipe => recipe.ingredients.every(...))
filterRecipes(recipeResults, pantry) ==
    SelectSeq(recipeResults, LAMBDA rec : everyIngredientAvailable(rec, pantry))

NewTask(handler, pantry, prior) ==
    [ NoTask EXCEPT !.handler = handler, !.pc = "text", !.pantry = pantry, !.prior = prior ]

FreeSlot == CHOOSE t \in TaskSlots : tasks[t] = NoTask /\ \A u \in 1..(t - 1) : tasks[u] # NoTask

AppInit ==
    /\ AppIdle
    /\ OthersIdle
    /\ recipe = [ ingredients |-> << >> ]
    /\ available = << >>
    /\ servingCount = 1
    /\ mounted = FALSE
    /\ maxServings = 0
    /\ rendered = << >>

\* handleImageAnalysis up to its first await (the analyze button of ImageUploader).
handleImageAnalysis ==
    /\ appState = "initial"
    /\ analysis = "idle"
    /\ appState' = "loading"
    /\ error' = "null"
    /\ analysis' = "pending"
    /\ UNCHANGED <<recipes, availableIngredients, isGeneratingMore, tasks, cardVars, otherVars>>

\* analyzeFridgeContents (and translateIngredientList) resolve with a non-empty list.
AnalysisSucceeds ==
    /\ analysis = "pending"
    /\ \E ingredients \in ConfirmedPantries :
          availableIngredients' =
              Some(SubSeq(ingredients, 1, Min(Len(ingredients), MAX_INGREDIENTS)))
    /\ appState' = "confirming_ingredients"
    /\ analysis' = "idle"
    /\ UNCHANGED <<recipes, error, isGeneratingMore, tasks, cardVars, otherVars>>

\* A service call rejects or no ingredient is identified: the catch block.
AnalysisFails ==
    /\ analysis = "pending"
    /\ \E message \in { "errorIdentifyIngredients", "errorUnexpected" } : error' = message
    /\ appState' = "error"
    /\ analysis' = "idle"
    /\ UNCHANGED <<recipes, availableIngredients, isGeneratingMore, tasks, cardVars, otherVars>>

\* handleRecipeGeneration up to its first await (IngredientEditor's onConfirm).
handleRecipeGeneration ==
    /\ appState = "confirming_ingredients"
    /\ \E t \in TaskSlots : tasks[t] = NoTask
    /\ \E confirmedIngredients \in ConfirmedPantries :
          /\ availableIngredients' = Some(confirmedIngredients)
          /\ tasks' = [ tasks EXCEPT ![FreeSlot] = NewTask("generate", confirmedIngredients, << >>) ]
    /\ appState' = "loading"
    /\ error' = "null"
    /\ UNCHANGED <<recipes, isGeneratingMore, analysis, cardVars, otherVars>>

\* handleGenerateMoreRecipes up to its first await (RecipeDisplay's button,
\* enabled by canGenerateMore; a meal type is taken to be ticked).
handleGenerateMoreRecipes ==
    /\ appState = "results"
    /\ ~recipes.isNull /\ ~availableIngredients.isNull
    /\ ~isGeneratingMore
    /\ Len(recipes.items) <= MaxDisplayed
    /\ \E t \in TaskSlots : tasks[t] = NoTask
    /\ isGeneratingMore' = TRUE
    /\ error' = "null"
    /\ tasks' = [ tasks EXCEPT ![FreeSlot] =
                    NewTask("more", availableIngredients.items, recipes.items) ]
    /\ UNCHANGED <<appState, recipes, availableIngredients, analysis, cardVars, otherVars>>

\* handleReset: onCancel of the editor, "start over" in 'results', "try again" in 'error'.
handleReset ==
    /\ appState \in { "confirming_ingredients", "results", "error" }
    /\ appState' = "initial"
    /\ recipes' = Null
    /\ availableIngredients' = Null
    /\ error' = "null"
    /\ UNCHANGED <<isGeneratingMore, analysis, tasks, cardVars, otherVars>>

\* Mutant: generate-more puts the new recipes before the existing ones.
TextReturnsPrepending(t) ==
    /\ tasks[t].pc = "text"
    /\ \E recipeResults \in RecipeResults :
        LET filtered == filterRecipes(recipeResults, tasks[t].pantry)
            combined == filtered \o tasks[t].prior
        IN  IF filtered = << >>
            THEN /\ tasks' = [ tasks EXCEPT ![t] = NoTask ]
                 /\ IF tasks[t].handler = "generate"
                    THEN \* throw new Error(t('errorNoRecipes')), caught below
                         /\ error' = "errorNoRecipes"
                         /\ appState' = "error"
                         /\ UNCHANGED <<recipes, isGeneratingMore>>
                    ELSE \* setIsGeneratingMore(false); return
                         /\ isGeneratingMore' = FALSE
                         /\ UNCHANGED <<recipes, error, appState>>
            ELSE /\ recipes' = Some(combined)
                 /\ tasks' = [ tasks EXCEPT ![t] =
                                 [ @ EXCEPT !.pc = "image",
                                            !.recipeResults = recipeResults,
                                            !.filtered = filtered,
                                            !.recipesToUpdate = combined,
                                            !.i = Len(tasks[t].prior) + 1 ] ]
                 /\ UNCHANGED <<error, appState, isGeneratingMore>>
    /\ UNCHANGED <<availableIngredients, analysis, cardVars, otherVars>>

\* generateMultipleRecipes resolves: the filter, and either the empty-list
\* exit or setRecipes and the start of the image loop.
TextReturns(t) ==
    /\ tasks[t].pc = "text"
    /\ \E recipeResults \in RecipeResults :
        LET filtered == filterRecipes(recipeResults, tasks[t].pantry)
            combined == tasks[t].prior \o filtered
        IN  IF filtered = << >>
            THEN /\ tasks' = [ tasks EXCEPT ![t] = NoTask ]
                 /\ IF tasks[t].handler = "generate"
                    THEN \* throw new Error(t('errorNoRecipes')), caught below
                         /\ error' = "errorNoRecipes"
                         /\ appState' = "error"
                         /\ UNCHANGED <<recipes, isGeneratingMore>>
                    ELSE \* setIsGeneratingMore(false); return
                         /\ isGeneratingMore' = FALSE
                         /\ UNCHANGED <<recipes, error, appState>>
            ELSE /\ recipes' = Some(combined)
                 /\ tasks' = [ tasks EXCEPT ![t] =
                                 [ @ EXCEPT !.pc = "image",
                                            !.recipeResults = recipeResults,
                                            !.filtered = filtered,
                                            !.recipesToUpdate = combined,
                                            !.i = Len(tasks[t].prior) + 1 ] ]
                 /\ UNCHANGED <<error, appState, isGeneratingMore>>
    /\ UNCHANGED <<availableIngredients, analysis, cardVars, otherVars>>

\* err.message || t('errorUnexpected') for what generateMultipleRecipes throws:
\* its own message on an unparsable answer, the fallback when there is none.
GenerationErrors == { "Could not generate valid recipes.", "errorUnexpected" }

\* Mutant: a failing text call of generate-more is reported like one of the
\* initial batch.
TextFailsAsFatal(t) ==
    /\ tasks[t].pc = "text"
    /\ tasks' = [ tasks EXCEPT ![t] = NoTask ]
    /\ \E message \in GenerationErrors : error' = message
    /\ appState' = "error"
    /\ isGeneratingMore' = IF tasks[t].handler = "more" THEN FALSE ELSE isGeneratingMore
    /\ UNCHANGED <<recipes, availableIngredients, analysis, cardVars, otherVars>>

\* generateMultipleRecipes rejects: the catch block (and finally) of the handler.
TextFails(t) ==
    /\ tasks[t].pc = "text"
    /\ tasks' = [ tasks EXCEPT ![t] = NoTask ]
    /\ IF tasks[t].handler = "generate"
       THEN /\ \E message \in GenerationErrors : error' = message
            /\ appState' = "error"
            /\ UNCHANGED isGeneratingMore
       ELSE /\ isGeneratingMore' = FALSE
            /\ UNCHANGED <<error, appState>>
    /\ UNCHANGED <<recipes, availableIngredients, analysis, cardVars, otherVars>>

\* Mutant: the pacing delay is waited only after a successful image call.
AfterImageDelayingOnSuccess(t, recipesToUpdate) ==
    IF tasks[t].i < Len(recipesToUpdate)
    THEN /\ tasks' = [ tasks EXCEPT ![t] =
                         IF recipesToUpdate[tasks[t].i].imageUrl = ""
                         THEN [ @ EXCEPT !.pc = "image", !.i = @ + 1,
                                         !.recipesToUpdate = recipesToUpdate ]
                         ELSE [ @ EXCEPT !.pc = "delay",
                                         !.recipesToUpdate = recipesToUpdate ] ]
         /\ UNCHANGED isGeneratingMore
    ELSE IF tasks[t].handler = "generate"
         THEN /\ tasks' = [ tasks EXCEPT ![t] =
                              [ @ EXCEPT !.pc = "timer", !.recipesToUpdate = recipesToUpdate ] ]
              /\ UNCHANGED isGeneratingMore
         ELSE /\ tasks' = [ tasks EXCEPT ![t] = NoTask ]
              /\ isGeneratingMore' = FALSE

\* Mutant: a failed image call ends the handler there and then, without the
\* 500 ms timeout.
AfterImageStoppingOnFailure(t, recipesToUpdate) ==
    IF recipesToUpdate[tasks[t].i].imageUrl = ""
    THEN /\ tasks' = [ tasks EXCEPT ![t] = NoTask ]
         /\ isGeneratingMore' = IF tasks[t].handler = "more" THEN FALSE ELSE isGeneratingMore
    ELSE IF tasks[t].i < Len(recipesToUpdate)
    THEN /\ tasks' = [ tasks EXCEPT ![t] =
                         [ @ EXCEPT !.pc = "delay", !.recipesToUpdate = recipesToUpdate ] ]
         /\ UNCHANGED isGeneratingMore
    ELSE IF tasks[t].handler = "generate"
         THEN /\ tasks' = [ tasks EXCEPT ![t] =
                              [ @ EXCEPT !.pc = "timer", !.recipesToUpdate = recipesToUpdate ] ]
              /\ UNCHANGED isGeneratingMore
         ELSE /\ tasks' = [ tasks EXCEPT ![t] = NoTask ]
              /\ isGeneratingMore' = FALSE

\* What follows the try/catch of one loop iteration: the pacing delay if a
\* recipe is left, otherwise the end of the handler.
AfterImage(t, recipesToUpdate) ==
    IF tasks[t].i < Len(recipesToUpdate)
    THEN /\ tasks' = [ tasks EXCEPT ![t] =
                         [ @ EXCEPT !.pc = "delay", !.recipesToUpdate = recipesToUpdate ] ]
         /\ UNCHANGED isGeneratingMore
    ELSE IF tasks[t].handler = "generate"
         THEN \* setTimeout(() => setAppState('results'), 500)
              /\ tasks' = [ tasks EXCEPT ![t] =
                              [ @ EXCEPT !.pc = "timer", !.recipesToUpdate = recipesToUpdate ] ]
              /\ UNCHANGED isGeneratingMore
         ELSE \* finally: setIsGeneratingMore(false)
              /\ tasks' = [ tasks EXCEPT ![t] = NoTask ]
              /\ isGeneratingMore' = FALSE

\* Mutant: the image is attached to the handler's copy and setRecipes is left out.
ImageSucceedsWithoutPublishing(t) ==
    /\ tasks[t].pc = "image"
    /\ LET i == tasks[t].i
           imageUrl == imageFor(tasks[t].recipesToUpdate[i].recipeName)
           recipesToUpdate == [ tasks[t].recipesToUpdate EXCEPT ![i].imageUrl = imageUrl ]
       IN  AfterImage(t, recipesToUpdate)
    /\ UNCHANGED <<appState, recipes, availableIngredients, error, analysis, cardVars, otherVars>>

\* Mutant: only the recipes imaged so far are published.
ImageSucceedsPublishingPrefix(t) ==
    /\ tasks[t].pc = "image"
    /\ LET i == tasks[t].i
           imageUrl == imageFor(tasks[t].recipesToUpdate[i].recipeName)
           recipesToUpdate == [ tasks[t].recipesToUpdate EXCEPT ![i].imageUrl = imageUrl ]
       IN  /\ recipes' = Some(SubSeq(recipesToUpdate, 1, i))
           /\ AfterImage(t, recipesToUpdate)
    /\ UNCHANGED <<appState, availableIngredients, error, analysis, cardVars, otherVars>>

\* generateMealImage resolves for recipe i: the image is attached and the list published.
ImageSucceeds(t) ==
    /\ tasks[t].pc = "image"
    /\ LET i == tasks[t].i
           imageUrl == imageFor(tasks[t].recipesToUpdate[i].recipeName)
           recipesToUpdate == [ tasks[t].recipesToUpdate EXCEPT ![i].imageUrl = imageUrl ]
       IN  /\ recipes' = Some(recipesToUpdate)
           /\ AfterImage(t, recipesToUpdate)
    /\ UNCHANGED <<appState, availableIngredients, error, analysis, cardVars, otherVars>>

\* Mutant: a rejected image call attaches a placeholder and publishes the list.
ImageFailsWithPlaceholder(t) ==
    /\ tasks[t].pc = "image"
    /\ LET i == tasks[t].i
           recipesToUpdate == [ tasks[t].recipesToUpdate EXCEPT ![i].imageUrl = "placeholder" ]
       IN  /\ recipes' = Some(recipesToUpdate)
           /\ AfterImage(t, recipesToUpdate)
    /\ UNCHANGED <<appState, availableIngredients, error, analysis, cardVars, otherVars>>

\* Mutant: a rejected image call reaches the handler's outer catch block.
ImageFailsAborting(t) ==
    /\ tasks[t].pc = "image"
    /\ tasks' = [ tasks EXCEPT ![t] = NoTask ]
    /\ IF tasks[t].handler = "generate"
       THEN /\ error' = "errorUnexpected"
            /\ appState' = "error"
            /\ UNCHANGED isGeneratingMore
       ELSE /\ isGeneratingMore' = FALSE
            /\ UNCHANGED <<error, appState>>
    /\ UNCHANGED <<recipes, availableIngredients, analysis, cardVars, otherVars>>

\* generateMealImage rejects for recipe i: the inner catch only warns.
ImageFails(t) ==
    /\ tasks[t].pc = "image"
    /\ AfterImage(t, tasks[t].recipesToUpdate)
    /\ UNCHANGED <<appState, recipes, availableIngredients, error, analysis, cardVars, otherVars>>

\* Mutant: after the delay a recipe whose image call failed is tried again.
DelayElapsesRetrying(t) ==
    /\ tasks[t].pc = "delay"
    /\ tasks' = [ tasks EXCEPT ![t] =
                    [ @ EXCEPT !.pc = "image",
                               !.i = IF tasks[t].recipesToUpdate[@].imageUrl = ""
                                     THEN @ ELSE @ + 1 ] ]
    /\ UNCHANGED <<appState, recipes, availableIngredients, error, isGeneratingMore,
                   analysis, cardVars, otherVars>>

\* The 1500 ms timeout between two image calls elapses.
DelayElapses(t) ==
    /\ tasks[t].pc = "delay"
    /\ tasks' = [ tasks EXCEPT ![t] = [ @ EXCEPT !.pc = "image", !.i = @ + 1 ] ]
    /\ UNCHANGED <<appState, recipes, availableIngredients, error, isGeneratingMore,
                   analysis, cardVars, otherVars>>

\* The 500 ms timeout at the end of handleRecipeGeneration fires.
ResultsTimer(t) ==
    /\ tasks[t].pc = "timer"
    /\ appState' = "results"
    /\ tasks' = [ tasks EXCEPT ![t] = NoTask ]
    /\ UNCHANGED <<recipes, availableIngredients, error, isGeneratingMore, analysis, cardVars, otherVars>>

Next ==
    \/ handleImageAnalysis
    \/ AnalysisSucceeds
    \/ AnalysisFails
    \/ handleRecipeGeneration
    \/ handleGenerateMoreRecipes
    \/ handleReset
    \/ \E t \in TaskSlots :
          \/ TextReturns(t)
          \/ TextFails(t)
          \/ ImageSucceeds(t)
          \/ ImageFails(t)
          \/ DelayElapses(t)
          \/ ResultsTimer(t)

Spec == AppInit /\ [][Next]_vars

-----------------------------------------------------------------------------
(* Vocabulary of the feasibility claims, stated on the card's inputs.       *)

Ingredients == recipe.ingredients
IngredientIndexes == 1..Len(recipe.ingredients)

\* The normalized name contains an entry of the staple list.
ContainsStapleWord == [ name \in Strings |-> \E w \in pantryStaples : includes(norm[name], w) ]
NonStaple(i) == ~ContainsStapleWord[Ingredients[i].name]

SameName(i, k) == norm[Ingredients[i].name] = norm[available[k].name]
Missing(i) == \A k \in 1..Len(available) : ~SameName(i, k)

\* The pantry entry of ingredient i: the first one with its normalized name.
EntryOf(i) ==
    available[CHOOSE k \in 1..Len(available) :
                 SameName(i, k) /\ \A j \in 1..(k - 1) : ~SameName(i, j)]

Compatible(i) ==
    LET a == norm[EntryOf(i).unit]
        r == norm[Ingredients[i].unit]
    IN  a = r \/ (a \in discreteUnits /\ r \in discreteUnits)

Matched(i) == ~Missing(i) /\ Compatible(i)

Needed(i) == servingCount * Ingredients[i].quantity

\* C1: if some non-staple ingredient has no pantry entry with the same
\* normalized name, calculateMaxServings returns 0, whatever the other
\* ingredients, their order and the pantry quantities.
C1_MissingIngredientGivesZero ==
    (mounted /\ \E i \in IngredientIndexes : NonStaple(i) /\ Missing(i))
        => maxServings = 0

\* C1 witness: a recipe whose first ingredient alone would allow servings and
\* whose second ingredient is missing from a non-empty pantry.
C1_Witness ==
    /\ mounted
    /\ Len(Ingredients) = 2
    /\ NonStaple(1) /\ Matched(1) /\ Ingredients[1].quantity > 0
    /\ EntryOf(1).quantity >= Ingredients[1].quantity
    /\ NonStaple(2) /\ Missing(2)
    /\ maxServings = 0

\* C2 as stated: a non-staple ingredient whose pantry entry has an incompatible
\* unit (normalized units differ and are not both discrete) makes
\* calculateMaxServings return 0.
C2_IncompatibleUnitGivesZero_AsStated ==
    mounted =>
        \A i \in IngredientIndexes :
            (NonStaple(i) /\ ~Missing(i) /\ ~Compatible(i)) => maxServings = 0

\* C2 amended: for a non-staple ingredient with a per-serving quantity > 0 and a
\* name-matching pantry entry, the units are compatible exactly when their
\* normalized forms are identical or both discrete: an incompatible unit makes
\* calculateMaxServings return 0, and when every non-staple ingredient is
\* compatible and covered for one serving the result is at least 1.
C2_IncompatibleUnitGivesZero ==
    mounted =>
        /\ \A i \in IngredientIndexes :
              (NonStaple(i) /\ ~Missing(i) /\ Ingredients[i].quantity > 0 /\ ~Compatible(i))
                  => maxServings = 0
        /\ (\A i \in IngredientIndexes :
              NonStaple(i) => /\ Matched(i)
                              /\ Ingredients[i].quantity > 0
                              /\ EntryOf(i).quantity >= Ingredients[i].quantity)
              => maxServings >= 1

\* C2 witness: a positive-quantity ingredient in cups against a pantry entry in
\* units gives 0 although the first ingredient is compatible (Pieces / unit).
C2_Witness ==
    /\ mounted
    /\ Len(Ingredients) = 2
    /\ NonStaple(1) /\ Matched(1) /\ Ingredients[1].quantity > 0
    /\ norm[EntryOf(1).unit] # norm[Ingredients[1].unit]
    /\ NonStaple(2) /\ ~Missing(2) /\ ~Compatible(2) /\ Ingredients[2].quantity > 0
    /\ maxServings = 0

\* The quotients floor(pantryQuantity / perServingQuantity) of the non-staple ingredients.
Quotients ==
    { EntryOf(i).quantity \div Ingredients[i].quantity :
        i \in { j \in IngredientIndexes : NonStaple(j) } }

\* C3: with at least one non-staple ingredient, all of them matched by name,
\* unit-compatible and of positive quantity, calculateMaxServings returns the
\* minimum of floor(pantryQuantity / perServingQuantity), an integer >= 0.
C3_MinimumOfQuotients ==
    ( /\ mounted
      /\ \E i \in IngredientIndexes : NonStaple(i)
      /\ \A i \in IngredientIndexes :
            NonStaple(i) => Matched(i) /\ Ingredients[i].quantity > 0 )
    => /\ maxServings \in Quotients
       /\ \A x \in Quotients : maxServings <= x
       /\ maxServings \in Nat

\* C3 witness: two non-staple ingredients with different quotients, the
\* smaller one first.
C3_Witness ==
    /\ mounted
    /\ Len(Ingredients) = 2
    /\ \A i \in IngredientIndexes :
          NonStaple(i) /\ Matched(i) /\ Ingredients[i].quantity > 0
    /\ EntryOf(1).quantity \div Ingredients[1].quantity = 1
    /\ EntryOf(2).quantity \div Ingredients[2].quantity = 2
    /\ maxServings = 1

\* C4: a recipe without non-staple ingredients (the empty recipe included)
\* gets the fallback ceiling 20 for every pantry.
C4_OnlyStaplesGivesFallback ==
    (mounted /\ \A i \in IngredientIndexes : ~NonStaple(i)) => maxServings = 20

\* C4 witness: a recipe of staples only against a non-empty pantry.
C4_Witness ==
    /\ mounted
    /\ Len(Ingredients) >= 1
    /\ \A i \in IngredientIndexes : ~NonStaple(i)
    /\ Len(available) >= 1
    /\ maxServings = 20

\* C5 as stated: for a non-staple ingredient with a name-matching,
\* unit-compatible pantry entry and every serving count s >= 1, no item is
\* shown when s x perServingQty <= pantryQty, and otherwise exactly one item
\* with amountToBuy = s x perServingQty - pantryQty.
C5_ShortfallOfMatchedIngredient ==
    mounted =>
        \A i \in IngredientIndexes :
            (NonStaple(i) /\ Matched(i)) =>
                IF Needed(i) <= EntryOf(i).quantity
                THEN ~rendered[i].isShort
                ELSE /\ rendered[i].isShort
                     /\ rendered[i].amountToBuy = Needed(i) - EntryOf(i).quantity

\* C6 as stated: a non-staple ingredient (of positive quantity) without a
\* unit-compatible pantry match by normalized name, be it no entry or an entry
\* with an incompatible unit, counts as 0 available and is reported with
\* amountToBuy = s x perServingQty.
C6_UnmatchedIngredientBoughtInFull ==
    mounted =>
        \A i \in IngredientIndexes :
            (NonStaple(i) /\ ~Matched(i) /\ Ingredients[i].quantity > 0) =>
                /\ rendered[i].isShort
                /\ rendered[i].amountToBuy = Needed(i)

\* The recipe without the ingredients whose name contains a staple word.
RECURSIVE WithoutStaples(_)
WithoutStaples(ings) ==
    IF Len(ings) = 0 THEN << >>
    ELSE (IF ContainsStapleWord[Head(ings).name] THEN << >> ELSE << Head(ings) >>)
         \o WithoutStaples(Tail(ings))

\* C7: an ingredient is classified as a staple exactly when its normalized
\* name contains an entry of the staple list, and a staple is skipped by both
\* operations: removing the staples from the recipe leaves the max-servings
\* result unchanged, and no staple is ever reported as a shortfall.
C7_StaplesAreSkipped ==
    mounted =>
        /\ \A name \in RecipeNames : isStaple[name] <=> ContainsStapleWord[name]
        /\ maxServings =
              calculateMaxServings([ ingredients |-> WithoutStaples(Ingredients) ], available)
        /\ \A i \in IngredientIndexes : ~NonStaple(i) => ~rendered[i].isShort

\* C7 witness: "Sea Salt" (a staple by substring only) of a quantity no pantry
\* covers, next to a matched ingredient, with more servings asked than possible.
C7_Witness ==
    /\ mounted
    /\ Len(Ingredients) = 2
    /\ Ingredients[1].name = "Sea Salt" /\ Ingredients[1].quantity > 0
    /\ norm["Sea Salt"] \notin pantryStaples
    /\ NonStaple(2) /\ Matched(2) /\ Ingredients[2].quantity > 0
    /\ maxServings = 1
    /\ servingCount > maxServings
    /\ ~rendered[1].isShort /\ rendered[2].isShort

\* normalizeString lowercases and then removes one trailing "s", no more.
NormalizeStripsOneS ==
    \A str \in Strings :
        LET lower == toLowerCase(str)
        IN  IF Len(lower) > 0 /\ charAt(lower, Len(lower)) = "s"
            THEN norm[str] \o "s" = lower
            ELSE norm[str] = lower

\* C8: normalizeString lowercases and removes exactly one trailing "s" ("Eggs"
\* matches "egg", "eggss" becomes "eggs" and does not match "egg"), and the
\* name and unit comparisons of both operations are made on normalized
\* values: an ingredient is missing exactly when no pantry name has its
\* normalized form, and otherwise its first such entry decides, by normalized
\* unit, the quotient and the amount to buy.
C8_ComparisonsAreNormalized ==
    mounted =>
        /\ NormalizeStripsOneS
        /\ norm["Eggs"] = norm["egg"] /\ norm["eggss"] = "eggs" /\ norm["eggss"] # norm["egg"]
        /\ \A i \in IngredientIndexes :
              NonStaple(i) =>
                IF Missing(i)
                THEN maxServings = 0 /\ rendered[i].amountToBuy = Needed(i)
                ELSE /\ norm[EntryOf(i).unit] = norm[Ingredients[i].unit]
                          => /\ rendered[i].amountToBuy = Max(0, Needed(i) - EntryOf(i).quantity)
                             /\ Ingredients[i].quantity > 0
                                  => maxServings <= EntryOf(i).quantity \div Ingredients[i].quantity
                     /\ (Len(Ingredients) = 1 /\ Compatible(i) /\ Ingredients[i].quantity > 0)
                          => maxServings = EntryOf(i).quantity \div Ingredients[i].quantity

\* C8 witness: "Eggs" in "cups" is served from the pantry's "egg" in "cup",
\* found behind an "eggss" entry that does not match.
C8_Witness ==
    /\ mounted
    /\ Len(Ingredients) = 1 /\ Len(available) = 2
    /\ Ingredients[1].name = "Eggs" /\ Ingredients[1].unit = "cups"
    /\ Ingredients[1].quantity = 1
    /\ available[1].name = "eggss"
    /\ available[2].name = "egg" /\ available[2].unit = "cup" /\ available[2].quantity = 2
    /\ maxServings = 2
    /\ servingCount = 3 /\ rendered[1].isShort /\ rendered[1].amountToBuy = 1

\* The recipe with the per-serving quantity of ingredient i set to q.
WithQuantity(i, q) ==
    [ ingredients |-> [ Ingredients EXCEPT ![i].quantity = q ] ]

\* C9: calculateMaxServings does not increase when the per-serving quantity
\* of one ingredient grows from q > 0 to q' >= q, the pantry and the other
\* ingredients being fixed.
C9_MonotoneInQuantity ==
    mounted =>
        \A i \in IngredientIndexes : \A q \in RecipeQuantities :
            (Ingredients[i].quantity > 0 /\ q >= Ingredients[i].quantity)
                => calculateMaxServings(WithQuantity(i, q), available) <= maxServings

\* C9 witness: raising one matched ingredient's quantity from 1 to 2 lowers
\* the result from 2 to 1.
C9_Witness ==
    /\ mounted
    /\ Len(Ingredients) >= 1
    /\ NonStaple(1) /\ Matched(1) /\ Ingredients[1].quantity = 1
    /\ maxServings = 2
    /\ calculateMaxServings(WithQuantity(1, 2), available) = 1

-----------------------------------------------------------------------------
(* Vocabulary of the pipeline claims *)

\* The calls that are past their filter: their locals recipeResults and
\* filtered hold the service's answer and what survived of it.
PastFilter(t) == tasks[t].pc \in { "image", "delay", "timer" }

\* sub consists of elements of full, in the order they have in full.
IsSubList(sub, full) ==
    \E at \in [ 1..Len(sub) -> 1..Len(full) ] :
        /\ \A j \in 1..Len(sub) : sub[j] = full[at[j]]
        /\ \A j, k \in 1..Len(sub) : j < k => at[j] < at[k]

\* The normalized name contains one of the filter's staple words.
IsFilterStapleName(name) == \E word \in appPantryStaples : includes(norm[name], word)

\* Some entry of the pantry has the same normalized name.
InPantry(name, pantry) == \E k \in 1..Len(pantry) : norm[pantry[k].name] = norm[name]

\* The recipe has a non-staple ingredient no pantry entry matches by name.
LacksAnIngredient(rec, pantry) ==
    \E i \in 1..Len(rec.ingredients) :
        /\ ~IsFilterStapleName(rec.ingredients[i].name)
        /\ ~InPantry(rec.ingredients[i].name, pantry)

\* C10: in handleRecipeGeneration and in handleGenerateMoreRecipes alike, the
\* recipes that survive the filter are a sub-list of the list returned by
\* generateMultipleRecipes (same elements, same relative order, nothing added
\* or altered); every ingredient of a surviving recipe is a staple or has the
\* normalized name of some confirmed pantry entry; and a returned recipe with a
\* non-staple ingredient absent from the pantry does not survive, whatever the
\* quantities.
C10_FilteredIsFeasibleSubList ==
    \A t \in TaskSlots :
        PastFilter(t) =>
            LET call == tasks[t]
            IN  /\ IsSubList(call.filtered, call.recipeResults)
                /\ \A j \in 1..Len(call.filtered) :
                       \A i \in 1..Len(call.filtered[j].ingredients) :
                           \/ IsFilterStapleName(call.filtered[j].ingredients[i].name)
                           \/ InPantry(call.filtered[j].ingredients[i].name, call.pantry)
                /\ \A j \in 1..Len(call.recipeResults) :
                       LacksAnIngredient(call.recipeResults[j], call.pantry) =>
                           \A k \in 1..Len(call.filtered) :
                               call.filtered[k] # call.recipeResults[j]

\* C10 witness: a call of each handler is past its filter, each having
\* dropped a returned recipe that needs milk although the pantry has eggs in
\* sufficient quantity, and kept another.
C10_Witness ==
    \E t, u \in TaskSlots :
        /\ tasks[t].handler = "generate" /\ tasks[u].handler = "more"
        /\ \A c \in { t, u } :
              /\ PastFilter(c)
              /\ Len(tasks[c].filtered) = 1
              /\ Len(tasks[c].recipeResults) = 2
              /\ \E j \in 1..2 : LacksAnIngredient(tasks[c].recipeResults[j], tasks[c].pantry)

\* Some entry of the pantry has the same normalized name and a unit that
\* calculateMaxServings accepts for the recipe's unit.
InPantryWithUnit(ing, pantry) ==
    \E k \in 1..Len(pantry) :
        /\ norm[pantry[k].name] = norm[ing.name]
        /\ unitsMatch(pantry[k].unit, ing.unit)

\* C11: the filter keeps a recipe only if every one of its ingredients is a
\* staple or matches a confirmed pantry entry under the rule of
\* calculateMaxServings: equal normalized name and compatible unit (identical
\* normalized units or both discrete).  No kept recipe has a non-staple
\* ingredient matched by name only.
C11_FilterUsesTheUnitRule ==
    \A t \in TaskSlots :
        PastFilter(t) =>
            \A j \in 1..Len(tasks[t].filtered) :
                \A i \in 1..Len(tasks[t].filtered[j].ingredients) :
                    LET ing == tasks[t].filtered[j].ingredients[i]
                    IN  \/ IsFilterStapleName(ing.name)
                        \/ InPantryWithUnit(ing, tasks[t].pantry)

-----------------------------------------------------------------------------
(* Vocabulary of the image-loop claims *)

\* The list a call works on, the number of recipes that were on display
\* before it (0 for handleRecipeGeneration) and the batch it images.
ListOf(t) == tasks[t].recipesToUpdate
BaseOf(t) == Len(tasks[t].prior)
BatchOf(t) == (BaseOf(t) + 1)..Len(ListOf(t))

\* The call is still running after the step.
Continues(t) == tasks'[t].pc # "idle"

\* The recipes of the batch whose image call has settled.
Attempted(t) ==
    { j \in BatchOf(t) : j < tasks[t].i \/ (j = tasks[t].i /\ tasks[t].pc # "image") }

\* The list with the image of recipe i attached by its own call.
WithOwnImage(list, i) == [ list EXCEPT ![i].imageUrl = imageFor(list[i].recipeName) ]

\* In the image loop the list has one entry per surviving recipe after the
\* earlier ones, and a recipe whose call has not settled has no imageUrl.
LoopListShape ==
    \A t \in TaskSlots :
        PastFilter(t) =>
            /\ Len(ListOf(t)) = BaseOf(t) + Len(tasks[t].filtered)
            /\ \A j \in BatchOf(t) \ Attempted(t) : ListOf(t)[j].imageUrl = ""

\* C12: for a batch of n surviving recipes and any set F of failing
\* generateMealImage calls, the list after the image loop has length n, the
\* recipes in F have no imageUrl and the others have the imageUrl their own
\* call returned.  Step by step: the list keeps one entry per surviving recipe;
\* a failing call leaves the list and what is published as they are, recipe i
\* without imageUrl; a succeeding call attaches its URL to recipe i alone and
\* publishes that list; nothing else changes the list of a running call.
C12_ImageFailuresLeaveGaps ==
    [][ /\ LoopListShape'
        /\ \A t \in TaskSlots :
              /\ ImageFails(t) =>
                    /\ ListOf(t)[tasks[t].i].imageUrl = ""
                    /\ recipes' = recipes
                    /\ Continues(t) => ListOf(t)' = ListOf(t)
              /\ ImageSucceeds(t) =>
                    /\ recipes' = Some(WithOwnImage(ListOf(t), tasks[t].i))
                    /\ Continues(t) => ListOf(t)' = recipes'.items
              /\ (tasks[t].pc \in { "delay", "timer" } /\ Continues(t)) =>
                    ListOf(t)' = ListOf(t)
      ]_vars

\* C12 witness: the loop of handleRecipeGeneration is over for two surviving
\* recipes; the first call failed, the second succeeded, and the published list
\* is the list of both, the first without imageUrl.
C12_Witness ==
    \E t \in TaskSlots :
        /\ tasks[t].handler = "generate" /\ tasks[t].pc = "timer"
        /\ Len(ListOf(t)) = 2
        /\ ListOf(t)[1].imageUrl = ""
        /\ ListOf(t)[2].imageUrl = imageFor(ListOf(t)[2].recipeName)
        /\ recipes = Some(ListOf(t))

\* Call t takes the step.
StepOf(t) == tasks'[t] # tasks[t]

\* C13: in handleRecipeGeneration the state 'error' is entered only when
\* generateMultipleRecipes throws or the filtered list is empty; once the image
\* loop has started, no step of the call, and so no failure of a
\* generateMealImage call, sets appState to 'error' or sets the error message.
C13_OnlyTextStepFailsTheBatch ==
    [][ \A t \in TaskSlots :
            (tasks[t].handler = "generate" /\ StepOf(t)) =>
                /\ (appState' = "error" \/ error' # error) =>
                       /\ tasks[t].pc = "text"
                       /\ TextFails(t) \/ (TextReturns(t) /\ ~Continues(t))
                /\ PastFilter(t) => (appState' = appState /\ error' = error)
                                      \/ (ResultsTimer(t) /\ error' = error)
      ]_vars

\* C13 witness: the image loop of handleRecipeGeneration is over, every image
\* call of its two recipes failed, and the application is still loading with no
\* error message.
C13_Witness ==
    \E t \in TaskSlots :
        /\ tasks[t].handler = "generate" /\ tasks[t].pc = "timer"
        /\ Len(ListOf(t)) = 2
        /\ \A j \in 1..2 : ListOf(t)[j].imageUrl = ""
        /\ appState = "loading" /\ error = "null"

\* C14: within one generation request image generation is strictly
\* sequential: one generateMealImage call per surviving recipe, in list order,
\* without retry, the call for recipe i + 1 issued only after the call for
\* recipe i has settled.  A request has one position, so at most one image call
\* in flight; the first call is for the first recipe of the batch, a settled
\* call is never followed by a call for the same recipe, the next call is for
\* the next recipe, and the loop ends only after the call for the last one.
C14_ImageCallsAreSequential ==
    [][ \A t \in TaskSlots :
            (tasks[t].handler # "none" /\ StepOf(t)) =>
                /\ (tasks[t].pc = "text" /\ Continues(t)) =>
                       /\ tasks'[t].pc = "image"
                       /\ tasks'[t].i = BaseOf(t) + 1
                       /\ tasks'[t].i <= Len(ListOf(t)')
                /\ tasks[t].pc = "image" =>
                       /\ tasks'[t].pc # "image"
                       /\ Continues(t) => (tasks'[t].i = tasks[t].i)
                       /\ (tasks'[t].pc = "delay") <=> (tasks[t].i < Len(ListOf(t)))
                /\ tasks[t].pc = "delay" =>
                       /\ tasks'[t].pc = "image"
                       /\ tasks'[t].i = tasks[t].i + 1
                       /\ tasks'[t].i <= Len(ListOf(t))
                /\ tasks[t].pc = "timer" => ~Continues(t)
      ]_vars

\* C14 witness: the call for the second recipe of a batch is in flight after
\* the call for the first one failed.
C14_Witness ==
    \E t \in TaskSlots :
        /\ tasks[t].pc = "image"
        /\ tasks[t].i = BaseOf(t) + 2
        /\ ListOf(t)[BaseOf(t) + 1].imageUrl = ""

\* The steps in which call t executes setRecipes: the publication of the
\* filtered (or combined) list and the one inside the try of the image loop.
CallsSetRecipes(t) == ImageSucceeds(t) \/ (TextReturns(t) /\ Continues(t))

\* The image call of recipe i settles and recipe i is not the last of the list.
SettlesBeforeLast(t) ==
    /\ tasks[t].pc = "image" /\ StepOf(t)
    /\ tasks[t].i < Len(ListOf(t))

\* C15 as stated: after each recipe except the last, whether its image call
\* succeeded or failed, the pipeline publishes the current partial list (a
\* setRecipes call) before waiting the inter-call delay.
C15_PublishesAfterEachRecipe_AsStated ==
    [][ \A t \in TaskSlots :
            SettlesBeforeLast(t) => CallsSetRecipes(t) /\ tasks'[t].pc = "delay"
      ]_vars

\* C15 (amended): the partial list is published after each recipe whose image
\* call succeeded, the last one included, and before the inter-call delay;
\* after a failed call nothing is published and what was published stays; the
\* delay follows every recipe but the last, whatever the outcome.
C15_PublishesAfterEachSuccess ==
    [][ \A t \in TaskSlots :
            /\ ImageSucceeds(t) =>
                   /\ recipes'.items[tasks[t].i].imageUrl # ""
                   /\ recipes' = Some(WithOwnImage(ListOf(t), tasks[t].i))
            /\ ImageFails(t) => recipes' = recipes
            /\ SettlesBeforeLast(t) =>
                   /\ tasks'[t].pc = "delay"
                   /\ ImageSucceeds(t) => recipes' = Some(ListOf(t)')
      ]_vars

\* C15 witness: the first of two recipes got its image, the list with that
\* image is published, and the call waits the delay before the second one.
C15_Witness ==
    \E t \in TaskSlots :
        /\ tasks[t].pc = "delay"
        /\ tasks[t].i = BaseOf(t) + 1
        /\ ListOf(t)[tasks[t].i].imageUrl # ""
        /\ recipes = Some(ListOf(t))

\* The number of recipes a call images: the surviving recipes of its answer.
BatchSize(t) == Len(ListOf(t)) - BaseOf(t)

\* C16: between two consecutive image calls of a batch exactly one 1.5 s delay
\* elapses, after a success as after a failure, and none is waited after the
\* last recipe: a batch of n >= 1 recipes waits n - 1 delays (n the number of
\* appended recipes for generate-more).  A settled call of a recipe other than
\* the last is followed by the delay and the delay by the next call; the k-th
\* delay of a batch has 1 <= k <= n - 1; the settled call of the last recipe
\* ends the loop.
C16_OneDelayBetweenImageCalls ==
    [][ \A t \in TaskSlots :
            /\ (ImageSucceeds(t) \/ ImageFails(t)) =>
                   IF tasks[t].i - BaseOf(t) < BatchSize(t)
                   THEN tasks'[t].pc = "delay"
                   ELSE tasks'[t].pc \in { "timer", "idle" }
            /\ (tasks[t].pc = "delay" /\ StepOf(t)) =>
                   tasks'[t].pc = "image" /\ tasks'[t].i = tasks[t].i + 1
            /\ tasks'[t].pc = "delay" =>
                   /\ BatchSize(t)' >= 1
                   /\ 1 <= tasks'[t].i - BaseOf(t)'
                   /\ tasks'[t].i - BaseOf(t)' <= BatchSize(t)' - 1
      ]_vars

\* C16 witness: a generate-more call that appended two recipes to one on
\* display waits its only delay, after the failed image call of the first.
C16_Witness ==
    \E t \in TaskSlots :
        /\ tasks[t].handler = "more" /\ tasks[t].pc = "delay"
        /\ BaseOf(t) = 1 /\ BatchSize(t) = 2
        /\ tasks[t].i = 2
        /\ ListOf(t)[2].imageUrl = ""

\* The filtered list of handleRecipeGeneration is empty: the answer arrives
\* and the call ends at once.
EmptyAfterFiltering(t) ==
    tasks[t].handler = "generate" /\ TextReturns(t) /\ ~Continues(t)

\* C17: an empty list after filtering is reported as a 'no feasible recipes'
\* condition distinct from a transport or parse error and is not treated as a
\* fatal error: the application does not enter the state 'error', and the error
\* value is none of those a throwing generateMultipleRecipes leaves.
C17_NoFeasibleRecipesIsNotFatal ==
    [][ \A t \in TaskSlots :
            EmptyAfterFiltering(t) =>
                /\ appState' # "error"
                /\ error' \notin GenerationErrors
      ]_vars

\* The list with every imageUrl taken away.
WithoutImages(list) == [ j \in 1..Len(list) |-> [ list[j] EXCEPT !.imageUrl = "" ] ]

\* C18: every list handleRecipeGeneration publishes during a batch has the
\* length of the filtered list and the same recipes in the same order, and
\* every field of a recipe other than imageUrl has the value text generation
\* returned: the pipeline only ever adds imageUrl.  The same holds of the
\* handler's working copy throughout the loop.
C18_OnlyImageUrlIsAdded ==
    [][ \A t \in TaskSlots :
            tasks'[t].handler = "generate" =>
                /\ PastFilter(t)' =>
                       /\ Len(ListOf(t)') = Len(tasks'[t].filtered)
                       /\ WithoutImages(ListOf(t)') = tasks'[t].filtered
                       /\ IsSubList(tasks'[t].filtered, tasks'[t].recipeResults)
                /\ CallsSetRecipes(t) =>
                       /\ Len(recipes'.items) = Len(tasks'[t].filtered)
                       /\ WithoutImages(recipes'.items) = tasks'[t].filtered
      ]_vars

\* C18 witness: both recipes of a batch of handleRecipeGeneration have their
\* image, and the published list is the filtered list with the two images.
C18_Witness ==
    \E t \in TaskSlots :
        /\ tasks[t].handler = "generate" /\ tasks[t].pc = "timer"
        /\ Len(tasks[t].filtered) = 2
        /\ \A j \in 1..2 : recipes.items[j].imageUrl # ""
        /\ recipes.items # tasks[t].filtered
        /\ WithoutImages(recipes.items) = tasks[t].filtered

\* C19: handleGenerateMoreRecipes appends the filtered new recipes after the
\* existing ones: it starts from the list on display; in every list it
\* publishes, and in its working copy, the first recipes.length entries are
\* the pre-existing recipes unchanged, imageUrl or lack of one included, in the
\* same order, followed by the filtered new recipes; and image calls are issued
\* only for the appended entries.
C19_GenerateMoreAppends ==
    [][ \A t \in TaskSlots :
            /\ (tasks[t].handler = "none" /\ tasks'[t].handler = "more") =>
                   tasks'[t].prior = recipes.items
            /\ (tasks'[t].handler = "more" /\ PastFilter(t)') =>
                   /\ SubSeq(ListOf(t)', 1, BaseOf(t)') = tasks'[t].prior
                   /\ WithoutImages(SubSeq(ListOf(t)', BaseOf(t)' + 1, Len(ListOf(t)')))
                          = tasks'[t].filtered
                   /\ tasks'[t].i > BaseOf(t)'
            /\ (tasks[t].handler = "more" /\ CallsSetRecipes(t)) =>
                   /\ Len(recipes'.items) > BaseOf(t)
                   /\ SubSeq(recipes'.items, 1, BaseOf(t)) = tasks[t].prior
      ]_vars

\* C19 witness: generate-more appended two recipes to a recipe on display
\* that has no image; the first appended one got its image and the published
\* list still starts with the old recipe, without image.
C19_Witness ==
    \E t \in TaskSlots :
        /\ tasks[t].handler = "more" /\ tasks[t].pc = "delay"
        /\ BaseOf(t) = 1 /\ tasks[t].prior[1].imageUrl = ""
        /\ Len(ListOf(t)) = 3
        /\ ListOf(t)[2].imageUrl # ""
        /\ recipes = Some(ListOf(t))
        /\ recipes.items[1] = tasks[t].prior[1]

\* The batch of call t is in flight: its text call, an image call or a pacing
\* delay is pending.
InFlight(t) == tasks[t].pc \in { "text", "image", "delay" }

\* C20: under every sequence of user actions the UI allows, at most one
\* generation batch, initial or generate-more, is in flight at any time: a new
\* batch starts only after the last image attempt of the previous one settled.
C20_AtMostOneBatchInFlight ==
    Cardinality({ t \in TaskSlots : InFlight(t) }) <= 1

-----------------------------------------------------------------------------
(* The pipeline under the assumption that calls settle and timers fire *)

\* A pending step of call t: the service answers or fails, a timeout elapses.
TaskStep(t) ==
    \/ TextReturns(t)
    \/ TextFails(t)
    \/ ImageSucceeds(t)
    \/ ImageFails(t)
    \/ DelayElapses(t)
    \/ ResultsTimer(t)

\* Every AI-service call eventually returns or fails and every timer fires.
FairSpec == Spec /\ \A t \in TaskSlots : WF_vars(TaskStep(t))

\* An initial batch is under way: handleRecipeGeneration set 'loading' and
\* its call has not ended.
BatchLoading ==
    appState = "loading" /\ \E t \in TaskSlots : tasks[t].handler = "generate"

\* C21: once an initial batch has started, and provided every AI-service
\* call eventually returns or fails and every timer fires, the batch reaches
\* appState 'results' or 'error'; it never stays in 'loading' forever, whatever
\* image calls fail.
C21_BatchLeavesLoading ==
    BatchLoading ~> (appState \in { "results", "error" })

\* C21 witness: a batch has reached 'results' although every image call of
\* its two recipes failed.
C21_Witness ==
    /\ appState = "results"
    /\ \A t \in TaskSlots : tasks[t] = NoTask
    /\ ~recipes.isNull
    /\ Len(recipes.items) = 2
    /\ \A j \in 1..2 : recipes.items[j].imageUrl = ""

-----------------------------------------------------------------------------
(* App.tsx, variant with AI translation of the UI: handleLanguageChange *)

\* Codes of supportedLanguages offered by the selector of ImageUploader.
Languages == { "en", "fr", "de", "es", "sv" }

\* handleLanguageChange up to its await.  The selector is part of
\* ImageUploader, shown in 'initial'; the translating overlay covers the page
\* while isTranslating.
handleLanguageChange ==
    /\ appState = "initial"
    /\ ~isTranslating
    /\ \E newLangCode \in Languages :
          IF newLangCode = language
          THEN UNCHANGED <<language, isTranslating, error, translation>>
          ELSE IF newLangCode \in allTranslations
          THEN /\ language' = newLangCode
               /\ UNCHANGED <<isTranslating, error, translation>>
          ELSE /\ isTranslating' = TRUE
               /\ error' = "null"
               /\ translation' = newLangCode
               /\ UNCHANGED language
    /\ UNCHANGED <<allTranslations, appState, recipes, availableIngredients,
                   isGeneratingMore, analysis, tasks, cardVars, uploaderVars, editorVars>>

\* translateUI resolves: the strings are cached and the language switched.
TranslateUISucceeds ==
    /\ translation # "none"
    /\ allTranslations' = allTranslations \cup { translation }
    /\ language' = translation
    /\ isTranslating' = FALSE
    /\ translation' = "none"
    /\ UNCHANGED <<appVars, cardVars, uploaderVars, editorVars>>

\* Mutant: a failed translation is reported like the failures of the pipeline.
TranslateUIFailsShowingError ==
    /\ translation # "none"
    /\ error' = "Could not translate the app."
    /\ appState' = "error"
    /\ isTranslating' = FALSE
    /\ translation' = "none"
    /\ UNCHANGED <<language, allTranslations, recipes, availableIngredients,
                   isGeneratingMore, analysis, tasks, cardVars, uploaderVars, editorVars>>

\* translateUI rejects: the catch block only logs, finally clears the overlay.
TranslateUIFails ==
    /\ translation # "none"
    /\ isTranslating' = FALSE
    /\ translation' = "none"
    /\ UNCHANGED <<language, allTranslations, appVars, cardVars, uploaderVars, editorVars>>

\* The analyse button of ImageUploader, out of reach under the overlay.
UploaderAnalyse == ~isTranslating /\ handleImageAnalysis

LangNext ==
    \/ handleLanguageChange
    \/ TranslateUISucceeds
    \/ TranslateUIFails
    \/ UploaderAnalyse
    \/ AnalysisSucceeds
    \/ AnalysisFails
    \/ handleReset

SpecLang == AppInit /\ [][LangNext]_vars

\* The awaited translateUI call ends without its language being cached.
TranslationFailed ==
    /\ translation # "none"
    /\ translation' = "none"
    /\ translation \notin allTranslations'

\* C22: if translateUI fails for a language that is not cached, the active
\* language and the translation cache are left exactly as before, the error
\* value stays null, appState is unchanged and isTranslating returns to false.
\* While the call is awaited the language is not cached, the active one is,
\* and no error is set.
C22_TranslationFailureKeepsLanguage ==
    [][ /\ isTranslating' =>
              /\ translation' \notin allTranslations'
              /\ language' \in allTranslations'
              /\ error' = "null"
        /\ TranslationFailed =>
              /\ language' = language
              /\ allTranslations' = allTranslations
              /\ error = "null" /\ error' = "null"
              /\ appState' = appState
              /\ isTranslating /\ ~isTranslating'
      ]_vars

\* C22 witness: with French active and cached after an earlier translation,
\* the translation to German is awaited.
C22_Witness ==
    /\ language = "fr"
    /\ allTranslations = { "en", "fr" }
    /\ isTranslating
    /\ translation = "de"

-----------------------------------------------------------------------------
(* Duplicate pantry entries *)

\* The pantry without the entries whose normalized name an earlier entry has.
RECURSIVE WithoutLaterDuplicates(_)
WithoutLaterDuplicates(avail) ==
    IF avail = << >>
    THEN << >>
    ELSE LET n == Len(avail)
             front == SubSeq(avail, 1, n - 1)
         IN  IF \E j \in 1..(n - 1) : norm[avail[j].name] = norm[avail[n].name]
             THEN WithoutLaterDuplicates(front)
             ELSE Append(WithoutLaterDuplicates(front), avail[n])

\* C23: when several pantry entries have the same normalized name,
\* calculateMaxServings and the shortfall use only the first of them in pantry
\* order: the max-servings result and every amount to buy are what they are
\* for the pantry with the later duplicates removed, even when a later
\* duplicate has a compatible unit or a larger quantity.
C23_FirstDuplicateWins ==
    mounted =>
        /\ maxServings = calculateMaxServings(recipe, WithoutLaterDuplicates(available))
        /\ rendered = renderIngredients(recipe, WithoutLaterDuplicates(available),
                                        servingCount, maxServings)

\* C23 witness: the first entry for eggs has an incompatible unit, a later
\* duplicate a compatible unit and a larger quantity; the result is 0 servings
\* and an amount to buy of 0.
C23_Witness ==
    /\ mounted
    /\ Len(available) = 2 /\ Len(Ingredients) = 1
    /\ NonStaple(1) /\ Ingredients[1].quantity = 1
    /\ SameName(1, 1) /\ SameName(1, 2)
    /\ ~unitsMatch(available[1].unit, Ingredients[1].unit)
    /\ unitsMatch(available[2].unit, Ingredients[1].unit)
    /\ available[2].quantity > available[1].quantity
    /\ maxServings = 0
    /\ rendered[1].amountToBuy = 0

-----------------------------------------------------------------------------
(* The two staple lists *)

\* The returned recipes the filter of call t dropped.
RejectedBy(t) ==
    { tasks[t].recipeResults[j] : j \in 1..Len(tasks[t].recipeResults) }
        \ { tasks[t].filtered[k] : k \in 1..Len(tasks[t].filtered) }

\* C24: the filter of the pipeline and isPantryStaple of RecipeCard classify
\* the same ingredient names as staples, so no recipe is rejected by the filter
\* for an ingredient calculateMaxServings would skip as a staple: every
\* ingredient of the returned recipes is a staple for both or for neither, and
\* every rejected recipe has an ingredient that is absent from the pantry and
\* no staple for RecipeCard.
C24_SameStaplesInFilterAndCard ==
    \A t \in TaskSlots :
        PastFilter(t) =>
            /\ \A j \in 1..Len(tasks[t].recipeResults) :
                   \A i \in 1..Len(tasks[t].recipeResults[j].ingredients) :
                       LET name == tasks[t].recipeResults[j].ingredients[i].name
                       IN  isFilterStaple[name] <=> isStaple[name]
            /\ \A rec \in RejectedBy(t) :
                   \E i \in 1..Len(rec.ingredients) :
                       /\ ~isStaple[rec.ingredients[i].name]
                       /\ ~InPantry(rec.ingredients[i].name, tasks[t].pantry)

-----------------------------------------------------------------------------
(* Max-servings against the shopping list *)

\* Ingredient i has a shortage: more is needed than its matching pantry entry
\* holds, or it has no pantry entry and a positive quantity, or the card
\* computes a positive shortfall for it.
HasShortage(i) ==
    \/ Matched(i) /\ Needed(i) > EntryOf(i).quantity
    \/ Missing(i) /\ Ingredients[i].quantity > 0
    \/ rendered[i].amountToBuy > 0

\* C25: the guard servingCount > maxServings never hides a real shortage: for
\* every recipe, pantry and serving count s >= 1, if a non-staple ingredient
\* has a positive shortfall then s > calculateMaxServings(recipe, pantry).
C25_GuardNeverHidesShortage ==
    mounted =>
        \A i \in IngredientIndexes :
            (NonStaple(i) /\ HasShortage(i)) =>
                /\ servingCount > maxServings
                /\ servingCount > calculateMaxServings(recipe, available)

\* C25 witness: the pantry covers some servings but not the ones asked for;
\* the ingredient is flagged as short with a positive amount to buy.
C25_Witness ==
    /\ mounted
    /\ maxServings >= 1 /\ servingCount > maxServings
    /\ \E i \in IngredientIndexes :
          /\ NonStaple(i) /\ Matched(i)
          /\ Needed(i) > EntryOf(i).quantity
          /\ rendered[i].isShort /\ rendered[i].amountToBuy > 0

\* C26: max-servings and the shopping list agree in the other direction: for
\* every recipe with at least one non-staple ingredient and all per-serving
\* quantities > 0, every pantry and every serving count s >= 1 with
\* s > calculateMaxServings(recipe, pantry), at least one ingredient is flagged
\* as short with an amount to buy > 0.
C26_ExceedingMaxServingsFlagsAnIngredient ==
    ( /\ mounted
      /\ \E i \in IngredientIndexes : NonStaple(i)
      /\ \A i \in IngredientIndexes : Ingredients[i].quantity > 0
      /\ servingCount > maxServings )
        => \E i \in IngredientIndexes :
               rendered[i].isShort /\ rendered[i].amountToBuy > 0

-----------------------------------------------------------------------------
(* Reset while a batch is in flight *)

\* C27: after handleReset no recipe-list publication of a batch started
\* before the reset changes the recipes state: recipes stays null while
\* appState is 'initial', and a step of a generate-more call that is still
\* running beside a later call of handleRecipeGeneration leaves recipes as
\* they are.
C27_ResetSilencesEarlierBatch ==
    [][ /\ appState' = "initial" => recipes'.isNull
        /\ \A m, g \in TaskSlots :
              ( /\ tasks[m].handler = "more"
                /\ tasks[g].handler = "generate"
                /\ StepOf(m) ) => recipes' = recipes
      ]_vars

\* C28: when handleGenerateMoreRecipes fails at text generation or its
\* filtered result is empty, the existing recipe list, appState and the error
\* value are left unchanged, no image call is issued, and isGeneratingMore is
\* false once the handler has finished.  The handler starts with no error set,
\* so its setError(null) changes nothing either.
C28_GenerateMoreFailureIsSilent ==
    [][ \A t \in TaskSlots :
            /\ (tasks[t].handler = "none" /\ tasks'[t].handler = "more") =>
                   /\ error' = error /\ appState' = appState /\ recipes' = recipes
                   /\ isGeneratingMore'
            /\ ( /\ tasks[t].handler = "more"
                 /\ TextFails(t) \/ (TextReturns(t) /\ ~Continues(t)) ) =>
                   /\ recipes' = recipes
                   /\ appState' = appState
                   /\ error' = error
                   /\ tasks'[t] = NoTask
                   /\ ~isGeneratingMore'
      ]_vars

\* C28 witness: generate-more awaits its text call on the results screen,
\* the list on display published and the control disabled.
C28_Witness ==
    \E t \in TaskSlots :
        /\ tasks[t].handler = "more" /\ tasks[t].pc = "text"
        /\ appState = "results" /\ error = "null"
        /\ isGeneratingMore
        /\ recipes = Some(tasks[t].prior)


(***************************************************************************)
(* ImageUploader.tsx: selecting, reading and removing photos               *)
(***************************************************************************)
MAX_IMAGES == 3

MaxSelected == 2    \* files carried by one picker selection or drop
MaxReads == 2       \* processFiles calls whose reads are under way at once

\* A File is its name and its MIME type.
Files ==
    { [name |-> "a.jpg", type |-> "image/jpeg"],
      [name |-> "b.jpg", type |-> "image/jpeg"],
      [name |-> "c.png", type |-> "image/png"],
      [name |-> "notes.txt", type |-> "text/plain"] }

\* The FileList of one selection: distinct files, in the order chosen.
FileLists ==
    { l \in UNION { [1..n -> Files] : n \in 1..MaxSelected } :
        \A i, j \in 1..Len(l) : i # j => l[i] # l[j] }

\* file.type.startsWith('image/')
isImageType(type) == Len(type) >= 6 /\ SubSeq(type, 1, 6) = "image/"

\* filter by type and by the names already selected, then slice to the room
\* left, both taken from the files of the render the call was made in
filesToProcess(newFiles, current) ==
    LET existingFileNames == { current[i].name : i \in 1..Len(current) }
        kept == SelectSeq(newFiles,
                    LAMBDA file : /\ isImageType(file.type)
                                  /\ file.name \notin existingFileNames)
        room == MAX_IMAGES - Len(current)
    IN  SubSeq(kept, 1, IF Len(kept) < room THEN Len(kept) ELSE room)

\* processFiles, reached from handleFileChange and handleDrop; the drop zone
\* and its click handler are rendered while files.length < MAX_IMAGES
processFiles ==
    /\ Len(files) < MAX_IMAGES
    /\ Len(reads) < MaxReads
    /\ \E newFiles \in FileLists :
         LET toProcess == filesToProcess(newFiles, files)
         IN  /\ Len(toProcess) # 0
             /\ reads' = Append(reads, toProcess)
    /\ UNCHANGED <<files, cardVars, appVars, langVars, editorVars>>

\* Promise.all(fileReadPromises).then: the results of one call are appended
\* to whatever the list is by then
ReadsComplete ==
    \E k \in 1..Len(reads) :
        /\ files' = files \o reads[k]
        /\ reads' = SubSeq(reads, 1, k - 1) \o SubSeq(reads, k + 1, Len(reads))
        /\ UNCHANGED <<cardVars, appVars, langVars, editorVars>>

handleRemoveImage ==
    \E indexToRemove \in 1..Len(files) :
        /\ files' = SubSeq(files, 1, indexToRemove - 1)
                        \o SubSeq(files, indexToRemove + 1, Len(files))
        /\ UNCHANGED <<reads, cardVars, appVars, langVars, editorVars>>

UploaderNext ==
    \/ processFiles
    \/ ReadsComplete
    \/ handleRemoveImage

SpecUploader == AppInit /\ [][UploaderNext]_vars

\* C29: the number of selected files never exceeds MAX_IMAGES, whatever the
\* interleaving of processFiles calls, read completions and removals.
C29_NeverMoreThanMaxImages == Len(files) <= MAX_IMAGES


(***************************************************************************)
(* IngredientEditor: editing the identified ingredients                    *)
(* Quantities are counted in thousandths, so 0.25 is 250 and 1 is 1000.    *)
(***************************************************************************)
maxIngredients == 3     \* the maxIngredients prop (App passes MAX_INGREDIENTS)
MaxQuantity == 1000     \* the + button is not pressed beyond this quantity

quantityStep == 250     \* the 0.25 of the - and + buttons

EditorNames == { "", "egg" }
EditorUnits == { "g", "kg" }

\* What reaches handleIngredientChange as the value of the quantity field:
\* the empty string, a text parseFloat makes NaN of, or a number.
QuantityInputs ==
    { [kind |-> "empty", num |-> 0], [kind |-> "nan", num |-> 0] }
        \cup { [kind |-> "number", num |-> n] : n \in { 0 - 250, 0, 4, 1000 } }

\* initialIngredients: at most maxIngredients entries (handleImageAnalysis
\* slices the identified list), quantities >= 0
InitialEntry(i) ==
    [name |-> "egg", quantity |-> IF i % 2 = 1 THEN 1000 ELSE 0, unit |-> "g"]

InitialIngredientLists ==
    { [ i \in 1..n |-> InitialEntry(i) ] : n \in 0..maxIngredients }

EditorInit ==
    /\ \E initialIngredients \in InitialIngredientLists :
          /\ availableIngredients = Some(initialIngredients)
          /\ editorIngredients = initialIngredients
    /\ appState = "confirming_ingredients"
    /\ recipes = Null
    /\ error = "null"
    /\ isGeneratingMore = FALSE
    /\ analysis = "idle"
    /\ tasks = [ t \in TaskSlots |-> NoTask ]
    /\ LangIdle
    /\ files = << >>
    /\ reads = << >>
    /\ recipe = [ ingredients |-> << >> ]
    /\ available = << >>
    /\ servingCount = 1
    /\ mounted = FALSE
    /\ maxServings = 0
    /\ rendered = << >>

\* Number.prototype.toFixed(2) followed by parseFloat: two decimals, rounded
toFixed2(x) == ((x + 5) \div 10) * 10

\* The list handleIngredientChange stores after a quantity input.
withQuantity(list, index, value) ==
    IF value.kind = "empty" \/ (value.kind = "number" /\ value.num >= 0)
    THEN [ list EXCEPT ![index].quantity =
               IF value.kind = "empty" THEN 0 ELSE value.num ]
    ELSE list

EditorFrame == UNCHANGED <<cardVars, appVars, langVars, uploaderVars>>

\* handleAddIngredient without its length test
handleAddIngredientUnguarded ==
    /\ editorIngredients' =
           Append(editorIngredients, [name |-> "", quantity |-> 1000, unit |-> "g"])
    /\ EditorFrame

handleIngredientChange ==
    /\ \E index \in 1..Len(editorIngredients) :
         \/ \E value \in QuantityInputs :
                editorIngredients' = withQuantity(editorIngredients, index, value)
         \/ \E value \in EditorNames :
                editorIngredients' = [ editorIngredients EXCEPT ![index].name = value ]
         \/ \E value \in EditorUnits :
                editorIngredients' = [ editorIngredients EXCEPT ![index].unit = value ]
    /\ EditorFrame

handleQuantityStep ==
    /\ \E index \in 1..Len(editorIngredients), delta \in { 0 - quantityStep, quantityStep } :
         LET currentQuantity == editorIngredients[index].quantity
             sum == currentQuantity + delta
             newQuantity == IF sum > 0 THEN sum ELSE 0
         IN  /\ delta > 0 => newQuantity <= MaxQuantity
             /\ editorIngredients' =
                    withQuantity(editorIngredients, index,
                                 [kind |-> "number", num |-> toFixed2(newQuantity)])
    /\ EditorFrame

handleAddIngredient ==
    /\ Len(editorIngredients) < maxIngredients
    /\ editorIngredients' =
           Append(editorIngredients, [name |-> "", quantity |-> 1000, unit |-> "g"])
    /\ EditorFrame

handleRemoveIngredient ==
    /\ \E index \in 1..Len(editorIngredients) :
         editorIngredients' = SubSeq(editorIngredients, 1, index - 1)
                                 \o SubSeq(editorIngredients, index + 1, Len(editorIngredients))
    /\ EditorFrame

EditorNext ==
    \/ handleIngredientChange
    \/ handleQuantityStep
    \/ handleAddIngredient
    \/ handleRemoveIngredient

SpecEditor == EditorInit /\ [][EditorNext]_vars

\* C30: from an initial list of at most maxIngredients entries with quantities
\* >= 0, after any sequence of add, remove, quantity-step and field-change
\* operations the list has at most maxIngredients entries and every quantity
\* is >= 0.
C30_EditorWithinLimits ==
    /\ Len(editorIngredients) <= maxIngredients
    /\ \A i \in 1..Len(editorIngredients) : editorIngredients[i].quantity >= 0

\* A full list holding an added entry stepped down to 0.75 next to an entry
\* whose quantity is 0.
C30_Witness ==
    /\ Len(editorIngredients) = maxIngredients
    /\ \E i, j \in 1..Len(editorIngredients) :
         /\ editorIngredients[i].quantity = 0
         /\ editorIngredients[j].quantity = 750
         /\ editorIngredients[j].name = ""

====
